---- MODULE Spec2Model ----
(***************************************************************************)
(* Model of server.js: an Express relay in front of the Stripe checkout    *)
(* API.  Each request slot r runs one route handler.  The two async        *)
(* handlers (create-checkout-session, verify-payment) run up to their      *)
(* `await`, suspend while the processor settles the promise, and resume in *)
(* a second step.                                                          *)
(*                                                                         *)
(* JavaScript values are tagged records [t, n, s]: t is the type tag, n    *)
(* the numeric payload, s the string payload.  Major-unit money (amount,   *)
(* item.price, the amount of a verify reply) is held in fixed point, in    *)
(* thousandths of the major unit, so 49.99 is 49990 and 0.125 is 125;      *)
(* minor-unit money (unit_amount, amount_total), quantities and            *)
(* timestamps are plain integers.                                          *)
(***************************************************************************)
EXTENDS Integers, Sequences, FiniteSets, TLC

VARIABLES pc, req, now, promise, calls, responses, nextSession, load

vars == <<pc, req, now, promise, calls, responses, nextSession, load>>

(* ------------------------------ bounds -------------------------------- *)
NReq == 2
MaxItems == 2
MaxClock == 2

Reqs == 1..NReq

(* --------------------------- JavaScript values ------------------------ *)
Undefined == [t |-> "undefined", n |-> 0, s |-> ""]
NaN == [t |-> "NaN", n |-> 0, s |-> ""]
Num(k) == [t |-> "number", n |-> k, s |-> ""]
Str(z) == [t |-> "string", n |-> 0, s |-> z]
NoItems == [t |-> "undefined", a |-> <<>>]
Arr(q) == [t |-> "array", a |-> q]

\* ToBoolean: undefined, NaN, 0 and "" are falsy; every array is truthy.
Truthy(v) ==
    CASE v.t = "undefined" -> FALSE
      [] v.t = "NaN" -> FALSE
      [] v.t = "number" -> v.n # 0
      [] v.t = "string" -> v.s # ""
      [] v.t = "array" -> TRUE

\* a || b
Or(v, d) == IF Truthy(v) THEN v ELSE d

\* `${v}`
Template(v) ==
    CASE v.t = "undefined" -> "undefined"
      [] v.t = "NaN" -> "NaN"
      [] v.t = "number" -> ToString(v.n)
      [] v.t = "string" -> v.s

\* Math.round(v * 100) for v in thousandths of the major unit: v * 100 is
\* v.n / 10 minor units and Math.round is floor(y + 0.5), so the result is
\* floor((v.n + 5) / 10).  undefined * 100 is NaN and Math.round(NaN) is NaN.
MathRoundTimes100(v) ==
    IF v.t = "number" THEN Num((v.n + 5) \div 10) ELSE NaN

\* x / 100 for x in minor units, result in thousandths of the major unit.
DividedBy100(x) == Num(x * 10)

(* ----------------------- inputs the clients send ---------------------- *)
\* The sequential load sends one request drawn from the full input sets;
\* the concurrent load sends NReq requests drawn from the reduced sets.
Slots == IF load = "sequential" THEN {1} ELSE Reqs

LocalhostOrigin == "http://localhost:5500"
LoopbackOrigin == "http://127.0.0.1:5500"
ProductionOrigin == "https://kenyaonabudgetsafaris.co.uk"

Origins ==
    IF load = "sequential"
    THEN {Undefined, Str(LocalhostOrigin), Str(LoopbackOrigin), Str(ProductionOrigin)}
    ELSE {Undefined, Str(LocalhostOrigin)}

ItemPool ==
    { [title |-> Str("Safari"), quantity |-> Num(2), price |-> Num(49990)],
      [title |-> Undefined, quantity |-> Undefined, price |-> Undefined],
      [title |-> Str(""), quantity |-> Num(0), price |-> Num(125)],
      [title |-> Str("Balloon"), quantity |-> Num(1), price |-> Num(0)] }

ItemLists == UNION { [1..k -> ItemPool] : k \in 0..MaxItems }

CheckoutBodies ==
    IF load = "sequential"
    THEN [ userId : {Undefined, Str(""), Str("u1")},
           amount : {Undefined, Num(0), Num(120500), Num(125)},
           items : {NoItems} \cup { Arr(q) : q \in ItemLists },
           type : {Undefined, Str("activity_upgrade"), Str("package")},
           packageId : {Undefined, Str("pkg1")} ]
    ELSE [ userId : {Undefined, Str("u1")},
           amount : {Num(120500)},
           items : {NoItems},
           type : {Undefined},
           packageId : {Undefined} ]

VerifyBodies ==
    IF load = "sequential"
    THEN [ sessionId : {Undefined, Str(""), Str("cs_1"), Str("cs_unknown")} ]
    ELSE [ sessionId : {Undefined, Str("cs_1")} ]

CancellationBodies ==
    IF load = "sequential"
    THEN [ userId : {Undefined, Str("u1")}, timestamp : {Undefined, Num(1)} ]
    ELSE [ userId : {Undefined, Str("u1")}, timestamp : {Undefined} ]

OtherRequests ==
    IF load = "sequential"
    THEN { [method |-> "DELETE", url |-> "/foo"],
           [method |-> "GET", url |-> "/verify-payment"] }
    ELSE { [method |-> "DELETE", url |-> "/foo"] }

\* What the processor may answer.  Its behaviour is outside the program:
\* every call may be fulfilled or rejected.
StripeErrors ==
    IF load = "sequential"
    THEN { [message |-> "No such checkout.session"], [message |-> ""] }
    ELSE { [message |-> "No such checkout.session"] }

RetrievedSessions(id) ==
    [ id : {id},
      payment_status : IF load = "sequential"
                       THEN {"paid", "unpaid", "no_payment_required"}
                       ELSE {"paid", "unpaid"},
      amount_total : IF load = "sequential" THEN {5000, 4999} ELSE {5000},
      customer : {"cus_1"},
      metadata : { [userId |-> "u1", type |-> "package"] } ]

(* ------------------- POST /create-checkout-session --------------------- *)
\* Mutant: the userId check only fires when amount is missing too.
CheckoutValidationLoose(body) ==
    IF ~Truthy(body.userId) /\ ~Truthy(body.amount)
    THEN << [status |-> 400, body |-> [error |-> "Missing userId"]] >>
    ELSE IF ~Truthy(body.amount) /\ ~Truthy(body.items)
    THEN << [status |-> 400,
             body |-> [error |-> "Missing payment details (amount or items)"]] >>
    ELSE <<>>

\* Lines 49-55: the two early returns.  <<>> when the request passes.
CheckoutValidation(body) ==
    IF ~Truthy(body.userId)
    THEN << [status |-> 400, body |-> [error |-> "Missing userId"]] >>
    ELSE IF ~Truthy(body.amount) /\ ~Truthy(body.items)
    THEN << [status |-> 400,
             body |-> [error |-> "Missing payment details (amount or items)"]] >>
    ELSE <<>>

\* Mutant: every activity is sent with quantity 1.
ActivityLineItemSingle(item) ==
    [ price_data |->
        [ currency |-> "gbp",
          product_data |->
            [ name |-> Or(item.title, Str("Activity")),
              description |-> "Quantity: " \o Template(Or(item.quantity, Num(1))) ],
          unit_amount |-> MathRoundTimes100(Or(item.price, Num(0))) ],
      quantity |-> Num(1) ]

\* Lines 66-76: the callback of items.map.
ActivityLineItem(item) ==
    [ price_data |->
        [ currency |-> "gbp",
          product_data |->
            [ name |-> Or(item.title, Str("Activity")),
              description |-> "Quantity: " \o Template(Or(item.quantity, Num(1))) ],
          unit_amount |-> MathRoundTimes100(Or(item.price, Num(0))) ],
      quantity |-> Or(item.quantity, Num(1)) ]

PackageLineItem(amount) ==
    [ price_data |->
        [ currency |-> "gbp",
          product_data |-> [ name |-> Str("Travel Package Booking") ],
          unit_amount |-> MathRoundTimes100(amount) ],
      quantity |-> Num(1) ]

\* Lines 60-93.
LineItems(body) ==
    IF body.type = Str("activity_upgrade") /\ body.items.t = "array"
       /\ Len(body.items.a) > 0
    THEN [ i \in 1..Len(body.items.a) |-> ActivityLineItem(body.items.a[i]) ]
    ELSE << PackageLineItem(body.amount) >>

\* String.prototype.includes over the origins the clients send.
Includes(z, needle) ==
    \/ needle = "localhost" /\ z = LocalhostOrigin
    \/ needle = "127.0.0.1" /\ z = LoopbackOrigin

\* Line 100.
IsLocal(origin) ==
    Truthy(origin) /\ (Includes(origin.s, "localhost") \/ Includes(origin.s, "127.0.0.1"))

\* Mutant: the type is interpolated without its default.
SuccessQueryNoDefault(body, ts) ==
    << <<"session_id", "{CHECKOUT_SESSION_ID}">>,
       <<"userId", Template(body.userId)>>,
       <<"timestamp", Template(Num(ts))>>,
       <<"type", Template(body.type)>> >>

\* The query strings of lines 96-97 (and 104-105).
SuccessQuery(body, ts) ==
    << <<"session_id", "{CHECKOUT_SESSION_ID}">>,
       <<"userId", Template(body.userId)>>,
       <<"timestamp", Template(Num(ts))>>,
       <<"type", Template(Or(body.type, Str("package")))>> >>

CancelQuery(body, ts) ==
    << <<"userId", Template(body.userId)>>,
       <<"timestamp", Template(Num(ts))>> >>

\* Lines 96-97: the function-scope successUrl and cancelUrl.
ProductionUrls(body, ts) ==
    [ successUrl |-> [ origin |-> ProductionOrigin, path |-> "/payment-successa.html",
                       query |-> SuccessQuery(body, ts) ],
      cancelUrl |-> [ origin |-> ProductionOrigin, path |-> "/payment-cancelled.html",
                      query |-> CancelQuery(body, ts) ] ]

\* Lines 103-105: the block-scope successUrl and cancelUrl of the isLocal branch.
LocalUrls(origin, body, ts) ==
    LET localOrigin == Or(origin, Str(LocalhostOrigin)).s
    IN  [ successUrl |-> [ origin |-> localOrigin, path |-> "/payment-success.html",
                           query |-> SuccessQuery(body, ts) ],
          cancelUrl |-> [ origin |-> localOrigin, path |-> "/payment-cancelled.html",
                          query |-> CancelQuery(body, ts) ] ]

\* Mutant: the isLocal branch assigns the outer successUrl and cancelUrl.
UrlsByOrigin(origin, body, ts) ==
    IF IsLocal(origin) THEN LocalUrls(origin, body, ts) ELSE ProductionUrls(body, ts)

\* The successUrl and cancelUrl that lines 109-118 read.  The consts of the
\* isLocal block shadow the outer ones only inside that block, so the outer
\* bindings are the ones in scope here whatever isLocal is.
UrlsInScope(origin, body, ts) ==
    IF IsLocal(origin)
    THEN LET shadowed == LocalUrls(origin, body, ts) IN ProductionUrls(body, ts)
    ELSE ProductionUrls(body, ts)

\* Lines 113-127: the argument of stripe.checkout.sessions.create.
SessionParams(origin, body, ts) ==
    [ payment_method_types |-> <<"card">>,
      line_items |-> LineItems(body),
      mode |-> "payment",
      success_url |-> UrlsInScope(origin, body, ts).successUrl,
      cancel_url |-> UrlsInScope(origin, body, ts).cancelUrl,
      client_reference_id |-> body.userId,
      metadata |->
        [ userId |-> body.userId,
          timestamp |-> Str(ToString(ts)),
          packageId |-> Or(body.packageId, Str("")),
          type |-> Or(body.type, Str("package")),
          itemCount |-> IF Truthy(body.items) THEN Num(Len(body.items.a)) ELSE Num(1) ] ]

(* ------------------------------ responses ------------------------------ *)
\* res.json(body) with the default status, and res.status(code).json(body).
Json(body) == [status |-> 200, body |-> body]
StatusJson(code, body) == [status |-> code, body |-> body]

\* Lines 131-135.
CheckoutSuccessBody(session, ts) ==
    [ id |-> session.id, timestamp |-> ts, success |-> TRUE ]

\* Mutant: the catch block answers without res.status(500).
CheckoutErrorResponseNoStatus(error) ==
    Json([ error |-> Or(Str(error.message), Str("Error creating checkout session")).s,
           success |-> FALSE ])

\* Lines 138-141.
CheckoutErrorResponse(error) ==
    StatusJson(500, [ error |-> Or(Str(error.message), Str("Error creating checkout session")).s,
                      success |-> FALSE ])

\* Mutant: every status other than "unpaid" counts as paid.
VerifyBodyNotUnpaid(session) ==
    IF session.payment_status # "unpaid"
    THEN [ paid |-> TRUE,
           amount |-> DividedBy100(session.amount_total),
           customerId |-> session.customer,
           metadata |-> session.metadata,
           success |-> TRUE ]
    ELSE [ paid |-> FALSE,
           status |-> session.payment_status,
           metadata |-> session.metadata,
           success |-> TRUE ]

\* Lines 171-186.
VerifyBody(session) ==
    IF session.payment_status = "paid"
    THEN [ paid |-> TRUE,
           amount |-> DividedBy100(session.amount_total),
           customerId |-> session.customer,
           metadata |-> session.metadata,
           success |-> TRUE ]
    ELSE [ paid |-> FALSE,
           status |-> session.payment_status,
           metadata |-> session.metadata,
           success |-> TRUE ]

\* Lines 189-192.
VerifyErrorResponse(error) ==
    StatusJson(500, [ error |-> Or(Str(error.message), Str("Error verifying payment")).s,
                      success |-> FALSE ])

\* Date.prototype.toISOString for the first milliseconds of the epoch.
ToISOString(ts) ==
    "1970-01-01T00:00:00."
      \o (IF ts < 10 THEN "00" ELSE IF ts < 100 THEN "0" ELSE "")
      \o ToString(ts) \o "Z"

\* Mutant: `session` is one binding shared by the requests suspended at the
\* same await, holding the value of one of their settled promises.
AwaitedValueShared(r) ==
    promise[CHOOSE q \in Reqs : pc[q] = pc[r] /\ promise[q].state = promise[r].state].value

\* `const session = await ...`: the value the request's own promise settled to.
AwaitedValue(r) == promise[r].value

(* -------------------------------- state -------------------------------- *)
NoRequest == [route |-> "none"]
NoPromise == [state |-> "none"]

InitState ==
    /\ pc = [r \in Reqs |-> "idle"]
    /\ req = [r \in Reqs |-> NoRequest]
    /\ now = [r \in Reqs |-> 0]
    /\ promise = [r \in Reqs |-> NoPromise]
    /\ calls = <<>>
    /\ responses = [r \in Reqs |-> <<>>]
    /\ nextSession = 1

Init == InitState /\ load = "sequential"

InitConcurrent == InitState /\ load = "concurrent"

Respond(r, response) ==
    /\ responses' = [responses EXCEPT ![r] = Append(@, response)]
    /\ pc' = [pc EXCEPT ![r] = "done"]

(* ------------------------------- handlers ------------------------------ *)
\* GET /health, lines 35-40.
Health(r) ==
    /\ r \in Slots /\ pc[r] = "idle"
    /\ \E ts \in 1..MaxClock :
         Respond(r, Json([status |-> "healthy", timestamp |-> ToISOString(ts)]))
    /\ req' = [req EXCEPT ![r] = [route |-> "GET /health"]]
    /\ UNCHANGED <<now, promise, calls, nextSession, load>>

\* POST /create-checkout-session up to the await, lines 43-113.
CreateCheckoutSession(r) ==
    /\ r \in Slots /\ pc[r] = "idle"
    /\ \E body \in CheckoutBodies, origin \in Origins :
         /\ req' = [req EXCEPT ![r] = [route |-> "POST /create-checkout-session",
                                       origin |-> origin, body |-> body]]
         /\ IF CheckoutValidation(body) # <<>>
            THEN /\ Respond(r, CheckoutValidation(body)[1])
                 /\ UNCHANGED <<now, promise, calls>>
            ELSE \E ts \in 1..MaxClock :
                 /\ now' = [now EXCEPT ![r] = ts]
                 /\ calls' = Append(calls, [req |-> r, op |-> "create",
                                            arg |-> SessionParams(origin, body, ts)])
                 /\ promise' = [promise EXCEPT ![r] = [state |-> "pending"]]
                 /\ pc' = [pc EXCEPT ![r] = "awaitCreate"]
                 /\ UNCHANGED responses
    /\ UNCHANGED <<nextSession, load>>

\* POST /create-checkout-session after the await, lines 129-142.
CreateCheckoutResume(r) ==
    /\ pc[r] = "awaitCreate" /\ promise[r].state # "pending"
    /\ IF promise[r].state = "fulfilled"
       THEN Respond(r, Json(CheckoutSuccessBody(AwaitedValue(r), now[r])))
       ELSE Respond(r, CheckoutErrorResponse(AwaitedValue(r)))
    /\ UNCHANGED <<req, now, promise, calls, nextSession, load>>

\* GET /create-checkout-session, lines 146-151.
GetCheckout(r) ==
    /\ r \in Slots /\ pc[r] = "idle"
    /\ Respond(r, StatusJson(405,
         [ error |-> "GET method not allowed for this endpoint. Use POST instead.",
           success |-> FALSE ]))
    /\ req' = [req EXCEPT ![r] = [route |-> "GET /create-checkout-session"]]
    /\ UNCHANGED <<now, promise, calls, nextSession, load>>

\* POST /verify-payment up to the await, lines 154-168.
VerifyPayment(r) ==
    /\ r \in Slots /\ pc[r] = "idle"
    /\ \E body \in VerifyBodies :
         /\ req' = [req EXCEPT ![r] = [route |-> "POST /verify-payment", body |-> body]]
         /\ IF ~Truthy(body.sessionId)
            THEN /\ Respond(r, StatusJson(400, [ error |-> "Session ID is required",
                                                 success |-> FALSE ]))
                 /\ UNCHANGED <<promise, calls>>
            ELSE /\ calls' = Append(calls, [req |-> r, op |-> "retrieve",
                                            arg |-> body.sessionId])
                 /\ promise' = [promise EXCEPT ![r] = [state |-> "pending"]]
                 /\ pc' = [pc EXCEPT ![r] = "awaitRetrieve"]
                 /\ UNCHANGED responses
    /\ UNCHANGED <<now, nextSession, load>>

\* POST /verify-payment after the await, lines 169-193.
VerifyPaymentResume(r) ==
    /\ pc[r] = "awaitRetrieve" /\ promise[r].state # "pending"
    /\ IF promise[r].state = "fulfilled"
       THEN Respond(r, Json(VerifyBody(AwaitedValue(r))))
       ELSE Respond(r, VerifyErrorResponse(AwaitedValue(r)))
    /\ UNCHANGED <<req, now, promise, calls, nextSession, load>>

\* POST /handle-cancellation, lines 197-226.
HandleCancellation(r) ==
    /\ r \in Slots /\ pc[r] = "idle"
    /\ \E body \in CancellationBodies :
         /\ req' = [req EXCEPT ![r] = [route |-> "POST /handle-cancellation", body |-> body]]
         /\ IF ~Truthy(body.userId)
            THEN Respond(r, StatusJson(400, [ error |-> "User ID is required",
                                              success |-> FALSE ]))
            ELSE Respond(r, Json([ success |-> TRUE,
                                   message |-> "Cancellation processed",
                                   userId |-> body.userId,
                                   timestamp |-> body.timestamp ]))
    /\ UNCHANGED <<now, promise, calls, nextSession, load>>

\* The fallback middleware, lines 229-234.
RouteNotFound(r) ==
    /\ r \in Slots /\ pc[r] = "idle"
    /\ \E o \in OtherRequests :
         /\ req' = [req EXCEPT ![r] = [route |-> o.method \o " " \o o.url]]
         /\ Respond(r, StatusJson(404,
              [ error |-> "Route not found: " \o o.method \o " " \o o.url,
                success |-> FALSE ]))
    /\ UNCHANGED <<now, promise, calls, nextSession, load>>

(* ------------------------------ processor ------------------------------ *)
\* stripe.checkout.sessions.create fulfils: a session with a fresh id.
StripeCreatesSession(r) ==
    /\ pc[r] = "awaitCreate" /\ promise[r].state = "pending"
    /\ promise' = [promise EXCEPT ![r] =
                     [state |-> "fulfilled",
                      value |-> [id |-> "cs_" \o ToString(nextSession)]]]
    /\ nextSession' = nextSession + 1
    /\ UNCHANGED <<pc, req, now, calls, responses, load>>

\* stripe.checkout.sessions.retrieve fulfils: the session of the given id.
StripeReturnsSession(r) ==
    /\ pc[r] = "awaitRetrieve" /\ promise[r].state = "pending"
    /\ \E session \in RetrievedSessions(req[r].body.sessionId.s) :
         promise' = [promise EXCEPT ![r] = [state |-> "fulfilled", value |-> session]]
    /\ UNCHANGED <<pc, req, now, calls, responses, nextSession, load>>

\* Either call rejects.
StripeRejects(r) ==
    /\ pc[r] \in {"awaitCreate", "awaitRetrieve"} /\ promise[r].state = "pending"
    /\ \E error \in StripeErrors :
         promise' = [promise EXCEPT ![r] = [state |-> "rejected", value |-> error]]
    /\ UNCHANGED <<pc, req, now, calls, responses, nextSession, load>>

Next ==
    \E r \in Reqs :
        \/ Health(r)
        \/ CreateCheckoutSession(r)
        \/ CreateCheckoutResume(r)
        \/ GetCheckout(r)
        \/ VerifyPayment(r)
        \/ VerifyPaymentResume(r)
        \/ HandleCancellation(r)
        \/ RouteNotFound(r)
        \/ StripeCreatesSession(r)
        \/ StripeReturnsSession(r)
        \/ StripeRejects(r)

Spec == Init /\ [][Next]_vars

SpecConcurrent == InitConcurrent /\ [][Next]_vars

\* The event loop runs the continuation of every settled promise.
Fairness ==
    \A r \in Reqs : /\ WF_vars(CreateCheckoutResume(r))
                    /\ WF_vars(VerifyPaymentResume(r))

SpecFair == Init /\ [][Next]_vars /\ Fairness

(* ------------------------- vocabulary of the claims -------------------- *)
IsCheckout(r) == req[r].route = "POST /create-checkout-session"
IsVerify(r) == req[r].route = "POST /verify-payment"
CallsOf(r) == { i \in 1..Len(calls) : calls[i].req = r }
CreateCalls == { i \in 1..Len(calls) : calls[i].op = "create" }
FailureStatuses == {400, 404, 405, 500}

\* The request takes the per-item branch.
IsActivityUpgrade(body) ==
    body.type = Str("activity_upgrade") /\ body.items.t = "array" /\ body.items.a # <<>>

\* A field with a default: the default stands in for an absent, empty or zero
\* field.
Defaulted(v, d) == IF v \in {Undefined, Str(""), Num(0)} THEN d ELSE v

\* u minor units is major (in thousandths of the major unit) times 100,
\* rounded to the nearest integer, halves upwards.
IsRounded(u, major) ==
    /\ u.t = "number" /\ major.t = "number"
    /\ 10 * u.n - 5 <= major.n /\ major.n < 10 * u.n + 5

HasParam(url, key, value) ==
    \E i \in 1..Len(url.query) : url.query[i] = <<key, value>>

(* -------------------------------- claims -------------------------------- *)
\* C1: every response with status 400, 404, 405 or 500, of any route, has a
\* body with an `error` field and `success: false`.
C1_FailureEnvelope ==
    \A r \in Reqs : \A i \in 1..Len(responses[r]) :
        responses[r][i].status \in FailureStatuses =>
            /\ "error" \in DOMAIN responses[r][i].body
            /\ "success" \in DOMAIN responses[r][i].body
            /\ responses[r][i].body.success = FALSE

\* C2: a create-checkout request with neither `amount` nor a non-empty `items`
\* sequence is answered 400 and makes no session-creation call.
C2_NoPaymentDetailsIs400 ==
    \A r \in Reqs :
        ( /\ IsCheckout(r)
          /\ req[r].body.amount = Undefined
          /\ ~(req[r].body.items.t = "array" /\ req[r].body.items.a # <<>>) )
        => /\ CallsOf(r) = {}
           /\ Len(responses[r]) = 1
           /\ responses[r][1].status = 400

\* C3: in every session-creation call the unit price of every line item is an
\* integer number of minor units, the major-unit value (item price, default
\* 0, or amount) times 100, rounded.
C3_UnitAmountsAreMinorUnits ==
    \A i \in CreateCalls :
        LET body == req[calls[i].req].body
            items == calls[i].arg.line_items
        IN  \A j \in 1..Len(items) :
                IsRounded(items[j].price_data.unit_amount,
                          IF IsActivityUpgrade(body)
                          THEN Defaulted(body.items.a[j].price, Num(0))
                          ELSE body.amount)

\* C4: a request that fails validation is answered 400 and never calls the
\* processor: a missing userId (whatever the other fields), missing payment
\* details and a missing sessionId each give 400, and no request with a 400
\* response has a processor call.
C4_ValidationBeforeProcessor ==
    \A r \in Reqs :
        /\ ( IsCheckout(r) /\ req[r].body.userId = Undefined )
               => /\ Len(responses[r]) = 1 /\ responses[r][1].status = 400
                  /\ "error" \in DOMAIN responses[r][1].body
        /\ ( IsCheckout(r) /\ req[r].body.amount = Undefined
                           /\ req[r].body.items = NoItems )
               => Len(responses[r]) = 1 /\ responses[r][1].status = 400
        /\ ( IsVerify(r) /\ req[r].body.sessionId = Undefined )
               => Len(responses[r]) = 1 /\ responses[r][1].status = 400
        /\ ( \E i \in 1..Len(responses[r]) : responses[r][i].status = 400 )
               => CallsOf(r) = {}

C4_Witness ==
    \E r \in Reqs :
        /\ IsCheckout(r) /\ req[r].body.userId = Undefined
        /\ req[r].body.amount = Num(120500)
        /\ Len(responses[r]) = 1 /\ responses[r][1].status = 400
        /\ CallsOf(r) = {}

\* C5: for type "activity_upgrade" with non-empty items the line items sent
\* follow items in length and order, with name = title (default "Activity"),
\* quantity = quantity (default 1), unit price = round(price * 100) (price
\* default 0); otherwise one line item "Travel Package Booking", quantity 1,
\* unit price round(amount * 100), which is NaN when amount is undefined.
C5_LineItemsFollowRequest ==
    \A i \in CreateCalls :
        LET body == req[calls[i].req].body
            sent == calls[i].arg.line_items
        IN  IF IsActivityUpgrade(body)
            THEN /\ Len(sent) = Len(body.items.a)
                 /\ \A j \in 1..Len(sent) :
                      /\ sent[j].price_data.product_data.name
                           = Defaulted(body.items.a[j].title, Str("Activity"))
                      /\ sent[j].quantity = Defaulted(body.items.a[j].quantity, Num(1))
                      /\ IsRounded(sent[j].price_data.unit_amount,
                                   Defaulted(body.items.a[j].price, Num(0)))
            ELSE /\ Len(sent) = 1
                 /\ sent[1].price_data.product_data.name = Str("Travel Package Booking")
                 /\ sent[1].quantity = Num(1)
                 /\ IF body.amount.t = "number"
                    THEN IsRounded(sent[1].price_data.unit_amount, body.amount)
                    ELSE sent[1].price_data.unit_amount = NaN

C5_Witness ==
    \E i \in CreateCalls :
        LET body == req[calls[i].req].body
        IN  /\ IsActivityUpgrade(body)
            /\ Len(body.items.a) = 2
            /\ body.items.a[1].title = Undefined
            /\ body.items.a[2].quantity = Num(2)
            /\ Len(calls[i].arg.line_items) = 2

\* C6: a verify-payment request whose retrieval succeeds is answered 200 with
\* success true and paid true exactly when the payment status is "paid"; a
\* paid body carries amount = amount_total / 100, the customer id and the
\* metadata; an unpaid body carries the payment status as `status`, the
\* metadata and no amount.
C6_VerifyReflectsSession ==
    \A r \in Reqs :
        ( IsVerify(r) /\ pc[r] = "done" /\ promise[r].state = "fulfilled" )
        => LET session == promise[r].value
               body == responses[r][1].body
           IN  /\ Len(responses[r]) = 1
               /\ responses[r][1].status = 200
               /\ body.success = TRUE
               /\ body.paid = (session.payment_status = "paid")
               /\ body.metadata = session.metadata
               /\ IF session.payment_status = "paid"
                  THEN /\ body.amount.t = "number"
                       /\ body.amount.n * 100 = session.amount_total * 1000
                       /\ body.customerId = session.customer
                  ELSE /\ body.status = session.payment_status
                       /\ "amount" \notin DOMAIN body

C6_Witness ==
    \E r \in Reqs :
        /\ IsVerify(r) /\ pc[r] = "done" /\ promise[r].state = "fulfilled"
        /\ promise[r].value.payment_status = "no_payment_required"
        /\ responses[r][1].body.paid = FALSE

\* C7: when the processor call of a create-checkout or verify-payment request
\* is rejected, the request made that one call only and is answered exactly
\* once, with 500 and a body {error: <string>, success: false}.
C7_AnsweredOnceWith500(r) ==
    /\ pc[r] = "done"
    /\ Len(responses[r]) = 1
    /\ responses[r][1].status = 500
    /\ DOMAIN responses[r][1].body = {"error", "success"}
    /\ responses[r][1].body.error \in STRING
    /\ responses[r][1].body.success = FALSE

C7_RejectionIs500 ==
    /\ [](\A r \in Reqs :
            promise[r].state = "rejected" =>
                /\ Cardinality(CallsOf(r)) = 1
                /\ IF pc[r] = "done" THEN C7_AnsweredOnceWith500(r)
                                     ELSE responses[r] = <<>>)
    /\ \A r \in Reqs :
            (promise[r].state = "rejected") ~> C7_AnsweredOnceWith500(r)

C7_Witness ==
    \E r \in Reqs :
        /\ IsCheckout(r) /\ promise[r].state = "rejected"
        /\ promise[r].value.message = ""
        /\ C7_AnsweredOnceWith500(r)

\* C8 as stated: in every session-creation call both redirect URLs embed the
\* session placeholder, the userId, the timestamp and the type (default
\* "package"), and that timestamp is the one of the metadata and the response.
C8_UrlTimestamp(i) ==
    /\ calls[i].arg.metadata.timestamp.t = "string"
    /\ \A url \in {calls[i].arg.success_url, calls[i].arg.cancel_url} :
         HasParam(url, "timestamp", calls[i].arg.metadata.timestamp.s)
    /\ \A k \in 1..Len(responses[calls[i].req]) :
         responses[calls[i].req][k].status = 200 =>
            ToString(responses[calls[i].req][k].body.timestamp)
               = calls[i].arg.metadata.timestamp.s

C8_UrlIdentity(url, body) ==
    /\ HasParam(url, "session_id", "{CHECKOUT_SESSION_ID}")
    /\ HasParam(url, "userId", body.userId.s)
    /\ HasParam(url, "type", Defaulted(body.type, Str("package")).s)

C8_BothUrlsEmbedAll ==
    \A i \in CreateCalls :
        /\ C8_UrlTimestamp(i)
        /\ C8_UrlIdentity(calls[i].arg.success_url, req[calls[i].req].body)
        /\ C8_UrlIdentity(calls[i].arg.cancel_url, req[calls[i].req].body)

\* C8 amended: the success URL embeds the session placeholder, the userId, the
\* timestamp and the type (default "package"); the cancel URL embeds the
\* userId and the timestamp only; the timestamp of both URLs is the one of the
\* metadata (as a decimal string) and of the response body.
C8_SuccessUrlEmbedsAll ==
    \A i \in CreateCalls :
        /\ C8_UrlTimestamp(i)
        /\ C8_UrlIdentity(calls[i].arg.success_url, req[calls[i].req].body)
        /\ HasParam(calls[i].arg.cancel_url, "userId", req[calls[i].req].body.userId.s)
        /\ Len(calls[i].arg.cancel_url.query) = 2

C8_Witness ==
    \E i \in CreateCalls :
        /\ req[calls[i].req].body.type = Undefined
        /\ pc[calls[i].req] = "done"
        /\ responses[calls[i].req][1].status = 200
        /\ responses[calls[i].req][1].body.timestamp = MaxClock

C10_RequestsIndependent ==
    \A r \in Reqs :
        /\ Cardinality(CallsOf(r)) <= 1
        /\ Len(responses[r]) = (IF pc[r] = "done" THEN 1 ELSE 0)
        /\ \A i \in CallsOf(r) :
             IF calls[i].op = "create"
             THEN calls[i].arg.client_reference_id = req[r].body.userId
             ELSE calls[i].arg = req[r].body.sessionId
        /\ ( pc[r] = "done" /\ promise[r].state = "fulfilled" /\ IsCheckout(r) )
             => /\ responses[r][1].body.id = promise[r].value.id
                /\ responses[r][1].body.timestamp = now[r]
                /\ \A q \in Reqs \ {r} :
                     ( IsCheckout(q) /\ promise[q].state = "fulfilled" )
                     => responses[r][1].body.id # promise[q].value.id
        /\ ( pc[r] = "done" /\ promise[r].state = "fulfilled" /\ IsVerify(r) )
             => /\ responses[r][1].body.paid = (promise[r].value.payment_status = "paid")
                /\ responses[r][1].body.metadata = promise[r].value.metadata
        /\ ( pc[r] = "done" /\ promise[r].state = "rejected" )
             => responses[r][1].body.error \in
                  { promise[r].value.message, "Error creating checkout session",
                    "Error verifying payment" }

C10_Witness ==
    \E i \in CreateCalls : \E j \in CreateCalls :
        /\ i < j
        /\ pc[calls[i].req] = "done" /\ pc[calls[j].req] = "done"
        /\ responses[calls[i].req][1].status = 200
        /\ responses[calls[j].req][1].status = 200
        /\ responses[calls[i].req][1].body.id = "cs_2"
        /\ responses[calls[j].req][1].body.id = "cs_1"

====
